---- MODULE Spec2Model ----
(***************************************************************************)
(* A model of the document-segmentation core of gutenberg-extraction.py:   *)
(* the text-marker boilerplate trimmer, the section classifiers, the       *)
(* GutenbergHTMLParser event handlers, the WholeBookParser fallback and    *)
(* the part of extract_book that chains them.                              *)
(*                                                                         *)
(* Python strings are TLA+ strings; a character is a string of length 1.   *)
(* Python lists are sequences.  Indices named as in the source are         *)
(* 0-based (lines[i] of the source is lines[i + 1] here).                  *)
(***************************************************************************)
EXTENDS Integers, Sequences, FiniteSets, TLC

VARIABLES
    trim,      \* a run of remove_gutenberg_boilerplate on one text, and again on its output
    parser,    \* the fields of one GutenbergHTMLParser instance
    whole,     \* the fields of one WholeBookParser instance
    book,      \* the locals of extract_book from "Step 4" on
    obs,       \* history of the event stream fed to parser (observation only)
    hcall,     \* one call of is_chapter_heading: its text and its result
    peers      \* two GutenbergHTMLParser instances fed in turns

vars == <<trim, parser, whole, book, obs, hcall, peers>>

-----------------------------------------------------------------------------
(* Strings *)

Ch(s, i) == SubSeq(s, i, i)

LowerAlpha == "abcdefghijklmnopqrstuvwxyz"
UpperAlpha == "ABCDEFGHIJKLMNOPQRSTUVWXYZ"
Digits == "0123456789"

\* c occurs in the string chars
InChars(c, chars) == \E i \in 1..Len(chars) : Ch(chars, i) = c

IndexIn(c, chars) == CHOOSE i \in 1..Len(chars) : Ch(chars, i) = c

\* str.upper() and str.lower() on one ASCII character
UpperOf == [c \in {Ch(LowerAlpha, i) : i \in 1..Len(LowerAlpha)} |-> Ch(UpperAlpha, IndexIn(c, LowerAlpha))]
LowerOf == [c \in {Ch(UpperAlpha, i) : i \in 1..Len(UpperAlpha)} |-> Ch(LowerAlpha, IndexIn(c, UpperAlpha))]
UpperCh(c) == IF c \in DOMAIN UpperOf THEN UpperOf[c] ELSE c
LowerCh(c) == IF c \in DOMAIN LowerOf THEN LowerOf[c] ELSE c

\* str.upper() and str.lower(), character by character (by halves, to keep the
\* evaluation shallow)
RECURSIVE Upper(_)
Upper(s) ==
    IF Len(s) <= 1 THEN UpperCh(s)
    ELSE Upper(SubSeq(s, 1, Len(s) \div 2)) \o Upper(SubSeq(s, Len(s) \div 2 + 1, Len(s)))

RECURSIVE Lower(_)
Lower(s) ==
    IF Len(s) <= 1 THEN LowerCh(s)
    ELSE Lower(SubSeq(s, 1, Len(s) \div 2)) \o Lower(SubSeq(s, Len(s) \div 2 + 1, Len(s)))

\* Python's `sub in s`
Contains(s, sub) == \E i \in 1..(Len(s) - Len(sub) + 1) : SubSeq(s, i, i + Len(sub) - 1) = sub

StartsWith(s, p) == Len(p) <= Len(s) /\ SubSeq(s, 1, Len(p)) = p
EndsWith(s, p) == Len(p) <= Len(s) /\ SubSeq(s, Len(s) - Len(p) + 1, Len(s)) = p

IsSpace(c) == c \in {" ", "\n", "\t", "\r"}

\* str.strip()
Strip(s) ==
    LET keep == {i \in 1..Len(s) : ~IsSpace(Ch(s, i))}
        lo == CHOOSE i \in keep : \A j \in keep : i <= j
        hi == CHOOSE i \in keep : \A j \in keep : j <= i
    IN IF keep = {} THEN "" ELSE SubSeq(s, lo, hi)

\* ''.join(parts)
RECURSIVE Join(_)
Join(parts) == IF parts = <<>> THEN "" ELSE Head(parts) \o Join(Tail(parts))

-----------------------------------------------------------------------------
(* Configuration tables *)

START_MARKERS == <<
    "*** START OF THIS PROJECT GUTENBERG EBOOK",
    "*** START OF THE PROJECT GUTENBERG EBOOK",
    "*** START OF THE PROJECT GUTENBERG ETEXT",
    "*END*THE SMALL PRINT",
    "***START OF THE PROJECT GUTENBERG" >>

END_MARKERS == <<
    "End of the Project Gutenberg EBook",
    "End of Project Gutenberg's",
    "*** END OF THIS PROJECT GUTENBERG EBOOK",
    "*** END OF THE PROJECT GUTENBERG EBOOK",
    "End of this Project Gutenberg",
    "*** END OF THE PROJECT GUTENBERG" >>

\* marker.upper() for each marker, in list order
StartMarkersUpper == [i \in 1..Len(START_MARKERS) |-> Upper(START_MARKERS[i])]
EndMarkersUpper == [i \in 1..Len(END_MARKERS) |-> Upper(END_MARKERS[i])]

\* any(marker.upper() in line_upper for marker in START_MARKERS)
HasStartMarker(line) ==
    LET line_upper == Upper(line)
    IN \E i \in 1..Len(StartMarkersUpper) : Contains(line_upper, StartMarkersUpper[i])

\* any(marker.upper() in line_upper for marker in END_MARKERS)
HasEndMarker(line) ==
    LET line_upper == Upper(line)
    IN \E i \in 1..Len(EndMarkersUpper) : Contains(line_upper, EndMarkersUpper[i])

-----------------------------------------------------------------------------
(* remove_gutenberg_boilerplate                                            *)
(* A text is held as html_text.split('\n'): the sequence of its lines,     *)
(* never empty, no line holding a newline.                                 *)

\* the line number below which no end marker is looked for
EndScanFloor == 100

Max2(a, b) == IF a >= b THEN a ELSE b

\* the first loop, with its break: i + 1 for the first line i that holds a start
\* marker, else 0
FindStartLine(lines) ==
    LET at == {i \in 0..(Len(lines) - 1) : HasStartMarker(lines[i + 1])}
    IN IF at = {} THEN 0 ELSE (CHOOSE i \in at : \A j \in at : i <= j) + 1

\* the second loop, over range(from, len(lines)), with its break: the first line
\* that holds an end marker, else len(lines)
FindEndLine(lines, from) ==
    LET at == {i \in from..(Len(lines) - 1) : HasEndMarker(lines[i + 1])}
    IN IF at = {} THEN Len(lines) ELSE CHOOSE i \in at : \A j \in at : i <= j

\* '\n'.join(sl).split('\n'): joining no lines gives '', which is one empty line
JoinedLines(sl) == IF sl = <<>> THEN <<"">> ELSE sl

\* lines[a:b] with 0 <= a
Slice(lines, a, b) == SubSeq(lines, a + 1, IF b <= Len(lines) THEN b ELSE Len(lines))

TrimStart(lines) == FindStartLine(lines)

\* the end scan without the floor
TrimEndNoFloor(lines, start_line) == FindEndLine(lines, start_line)

TrimEnd(lines, start_line) == FindEndLine(lines, Max2(EndScanFloor, start_line))

remove_gutenberg_boilerplate(lines) ==
    LET start_line == TrimStart(lines)
        end_line == TrimEnd(lines, start_line)
    IN JoinedLines(Slice(lines, start_line, end_line))

-----------------------------------------------------------------------------
(* is_chapter_heading: classification of a heading by its text *)

NumeralChars == "ivxlcdm" \o Digits
RomanChars == "ivxlcdm"

\* s without its leading whitespace
DropSpaces(s) ==
    LET keep == {i \in 1..Len(s) : ~IsSpace(Ch(s, i))}
        lo == CHOOSE i \in keep : \A j \in keep : i <= j
    IN IF keep = {} THEN "" ELSE SubSeq(s, lo, Len(s))

\* every character of s is in chars, and s is not empty: ^[chars]+ to the end of s
AllIn(s, chars) == s # "" /\ \A i \in 1..Len(s) : InChars(Ch(s, i), chars)

\* re.sub(r'<[^>]+>', '', s)
RECURSIVE RemoveTags(_)
RemoveTags(s) ==
    IF s = "" THEN ""
    ELSE IF Ch(s, 1) = "<"
    THEN LET closes == {j \in 2..Len(s) : Ch(s, j) = ">"}
             j == CHOOSE k \in closes : \A m \in closes : k <= m
         IN IF closes # {} /\ j >= 3
            THEN RemoveTags(SubSeq(s, j + 1, Len(s)))
            ELSE "<" \o RemoveTags(SubSeq(s, 2, Len(s)))
    ELSE Ch(s, 1) \o RemoveTags(SubSeq(s, 2, Len(s)))

\* re.sub(r'\s+', ' ', s)
RECURSIVE CollapseSpaces(_)
CollapseSpaces(s) ==
    IF s = "" THEN ""
    ELSE IF IsSpace(Ch(s, 1)) THEN " " \o CollapseSpaces(DropSpaces(s))
    ELSE Ch(s, 1) \o CollapseSpaces(SubSeq(s, 2, Len(s)))

\* the regular expressions of CHAPTER_PATTERNS, in list order:
\*   word   ^<word>\s+[ivxlcdm\d]+      dot    ^<word>\s*[ivxlcdm\d]+
\*   roman  ^[ivxlcdm]+\.$              arabic ^\d+\.$
CHAPTER_PATTERNS == <<
    [kind |-> "word", word |-> "chapter"],
    [kind |-> "dot", word |-> "chap."],
    [kind |-> "roman", word |-> ""],
    [kind |-> "arabic", word |-> ""],
    [kind |-> "word", word |-> "letter"],
    [kind |-> "word", word |-> "volume"],
    [kind |-> "word", word |-> "book"],
    [kind |-> "word", word |-> "part"] >>

\* re.match(pattern, s, re.IGNORECASE) on an s that is already lower-case
PatternMatches(p, s) ==
    LET rest == SubSeq(s, Len(p.word) + 1, Len(s))
        after == DropSpaces(rest)
        numeral == after # "" /\ InChars(Ch(after, 1), NumeralChars)
    IN CASE p.kind = "word" -> StartsWith(s, p.word) /\ rest # "" /\ IsSpace(Ch(rest, 1)) /\ numeral
         [] p.kind = "dot" -> StartsWith(s, p.word) /\ numeral
         [] p.kind = "roman" -> EndsWith(s, ".") /\ AllIn(SubSeq(s, 1, Len(s) - 1), RomanChars)
         [] p.kind = "arabic" -> EndsWith(s, ".") /\ AllIn(SubSeq(s, 1, Len(s) - 1), Digits)

FRONT_MATTER_KEYWORDS == <<
    "preface", "introduction", "foreword", "prologue", "dedication",
    "acknowledgment", "acknowledgement", "note to the reader", "author's note",
    "contents", "table of contents" >>

BACK_MATTER_KEYWORDS == <<
    "epilogue", "afterword", "appendix", "notes", "endnotes", "footnotes",
    "glossary", "index", "bibliography", "about the author" >>

\* the loop over FRONT_MATTER_KEYWORDS from keyword i on: the first keyword that matches decides
RECURSIVE FrontMatterScan(_, _)
FrontMatterScan(text_clean, i) ==
    IF i > Len(FRONT_MATTER_KEYWORDS) THEN <<FALSE, "">>
    ELSE LET keyword == FRONT_MATTER_KEYWORDS[i]
         IN IF \/ text_clean = keyword
               \/ StartsWith(text_clean, keyword \o " ")
               \/ EndsWith(text_clean, " " \o keyword)
            THEN IF Contains(keyword, "contents") \/ Contains(keyword, "table")
                 THEN <<TRUE, "toc">>
                 ELSE <<TRUE, "front_matter">>
            ELSE FrontMatterScan(text_clean, i + 1)

\* the loop over BACK_MATTER_KEYWORDS
BackMatterScan(text_clean) ==
    IF \E i \in 1..Len(BACK_MATTER_KEYWORDS) :
           LET keyword == BACK_MATTER_KEYWORDS[i]
           IN text_clean = keyword \/ StartsWith(text_clean, keyword \o " ")
    THEN <<TRUE, "back_matter">>
    ELSE <<FALSE, "">>

\* text.strip().lower(), tags removed, whitespace collapsed, stripped again
CleanHeadingText(text) == Strip(CollapseSpaces(RemoveTags(Lower(Strip(text)))))

ChapterPatternHit(text_clean) ==
    \E i \in 1..Len(CHAPTER_PATTERNS) : PatternMatches(CHAPTER_PATTERNS[i], text_clean)

\* the back-matter keywords tried before the front-matter keywords
is_chapter_headingBackFirst(text) ==
    LET text_clean == CleanHeadingText(text)
        back == BackMatterScan(text_clean)
    IN IF ChapterPatternHit(text_clean) THEN <<TRUE, "chapter">>
       ELSE IF back[1] THEN back
       ELSE FrontMatterScan(text_clean, 1)

\* returns <<is_chapter, section_type>>
is_chapter_heading(text) ==
    LET text_clean == CleanHeadingText(text)
        front == FrontMatterScan(text_clean, 1)
    IN IF ChapterPatternHit(text_clean) THEN <<TRUE, "chapter">>
       ELSE IF front[1] THEN front
       ELSE BackMatterScan(text_clean)

-----------------------------------------------------------------------------
(* GutenbergHTMLParser: classification of a tag by its id *)

None == "None"

\* attrs is the list of (name, value) pairs the tokenizer hands over; dict(attrs)
\* keeps the last value of a repeated name
HasKey(attrs, k) == \E i \in 1..Len(attrs) : attrs[i][1] = k
Get(attrs, k) ==
    LET at == {i \in 1..Len(attrs) : attrs[i][1] = k}
    IN attrs[CHOOSE i \in at : \A j \in at : j <= i][2]

FRONT_MATTER_IDS == {
    "dedication", "preface", "introduction", "prologue", "foreword",
    "contents", "acknowledgments", "acknowledgements", "note", "notes" }

BACK_MATTER_IDS == {
    "epilogue", "afterword", "appendix", "footnotes", "endnotes",
    "bibliography", "glossary", "index" }

_detect_section_type(section_id) ==
    LET section_id_lower == Lower(section_id)
    IN IF section_id_lower \in FRONT_MATTER_IDS \/ StartsWith(section_id_lower, "front")
       THEN "front_matter"
       ELSE IF section_id_lower \in BACK_MATTER_IDS \/ StartsWith(section_id_lower, "back")
       THEN "back_matter"
       ELSE IF StartsWith(section_id_lower, "part") THEN "part"
       ELSE IF section_id_lower \in {"contents", "toc", "table-of-contents"} THEN "toc"
       ELSE "chapter"

\* a regular expression's $ also matches before one final newline
BeforeDollar(s) == IF EndsWith(s, "\n") THEN SubSeq(s, 1, Len(s) - 1) ELSE s

\* re.match(r'^ch[_-]?\d+', s)
MatchesChDigits(s) ==
    /\ StartsWith(s, "ch")
    /\ LET rest == SubSeq(s, 3, Len(s))
           num == IF rest # "" /\ Ch(rest, 1) \in {"_", "-"} THEN SubSeq(rest, 2, Len(rest)) ELSE rest
       IN num # "" /\ InChars(Ch(num, 1), Digits)

\* the chapter patterns for a div or section id
IdLooksLikeChapter(div_id, div_id_lower) ==
    \/ StartsWith(div_id_lower, "chapter")
    \/ StartsWith(div_id_lower, "chap")
    \/ MatchesChDigits(div_id_lower)
    \/ AllIn(div_id_lower, "ivxlc") \/ AllIn(BeforeDollar(div_id_lower), "ivxlc")
    \/ AllIn(div_id, Digits) \/ AllIn(BeforeDollar(div_id), Digits)

\* every classified container id starts a section
ContainerStartsAlways(section_type) == TRUE

\* if section_type != 'chapter': a container id that only gets the default type
\* starts no section
ContainerStarts(section_type) == section_type # "chapter"

\* returns <<is_chapter, section_id, section_type>>
_is_chapter_start(tag, attrs) ==
    LET div_id == Get(attrs, "id")
        div_id_lower == Lower(div_id)
        container == tag \in {"div", "section"} /\ HasKey(attrs, "id")
        heading == tag \in {"h2", "h3"} /\ HasKey(attrs, "id")
        section_type == _detect_section_type(div_id)
    IN IF container /\ ( \/ Contains(div_id_lower, "gutenberg")
                         \/ Contains(div_id_lower, "license")
                         \/ Contains(div_id_lower, "boilerplate") )
       THEN <<FALSE, None, None>>
       ELSE IF container /\ IdLooksLikeChapter(div_id, div_id_lower)
       THEN <<TRUE, div_id, "chapter">>
       ELSE IF container /\ ContainerStarts(section_type)
       THEN <<TRUE, div_id, section_type>>
       ELSE IF heading /\ (Contains(div_id_lower, "gutenberg") \/ Contains(div_id_lower, "license"))
       THEN <<FALSE, None, None>>
       ELSE IF heading
       THEN <<TRUE, div_id, section_type>>
       ELSE <<FALSE, None, None>>

-----------------------------------------------------------------------------
(* GutenbergHTMLParser                                                     *)
(* A parser is the record of its fields.  An optional value (a field that  *)
(* is None or a value) is a sequence of length 0 or 1.                     *)

GutenbergHTMLParser_init == [
    sections |-> <<>>,
    current_section |-> <<>>,
    current_content |-> <<>>,
    tag_stack |-> <<>>,
    in_boilerplate |-> FALSE,
    boilerplate_depth |-> 0,
    in_toc |-> FALSE,
    in_pagenum |-> FALSE,
    skip_content |-> FALSE,
    images_found |-> <<>>,
    pending_heading_text |-> <<>>,
    in_heading |-> FALSE,
    current_heading_tag |-> None,
    saves |-> 0,    \* observation only: the calls of _save_section that found an open section
    raised |-> <<>> ]   \* the exception that left a handler, if any

HeadingTags == {"h1", "h2", "h3", "h4"}

\* the truth value of an optional string: None and '' are false
Truthy(opt) == opt # <<>> /\ opt[1] # ""

\* self.current_section['content'].append(block)
AppendBlock(self, block) ==
    [self EXCEPT !.current_section[1].content = Append(@, block)]

\* a saved section that keeps the title as it is, set or not
SavedSectionUntitled(cur, content) ==
    [id |-> cur.id,
     title |-> IF cur.title # <<>> THEN cur.title[1] ELSE "",
     content |-> content,
     type |-> cur.type]

\* what _save_section appends to self.sections for the open section
SavedSection(cur, content) ==
    [id |-> cur.id,
     title |-> IF Truthy(cur.title) THEN cur.title[1] ELSE cur.id,
     content |-> content,
     type |-> cur.type]

\* the joined blocks as they are
SavedContentUnstripped(blocks) == Join(blocks)

\* content = ''.join(self.current_section['content']).strip()
SavedContent(blocks) == Strip(Join(blocks))

\* a save that appends the section also when its content is empty
_save_sectionKeepsEmpty(self0) ==
    IF self0.current_section = <<>> THEN self0
    ELSE LET self == [self0 EXCEPT !.saves = @ + 1]
             cur == self.current_section[1]
         IN [self EXCEPT !.sections = Append(@, SavedSection(cur, SavedContent(cur.content))),
                         !.current_section = <<>>]

_save_section(self0) ==
    IF self0.current_section = <<>> THEN self0
    ELSE LET self == [self0 EXCEPT !.saves = @ + 1]
             cur == self.current_section[1]
             content == SavedContent(cur.content)
         IN IF cur.type = "toc" THEN [self EXCEPT !.current_section = <<>>]
            ELSE IF content # ""
            THEN [self EXCEPT !.sections = Append(@, SavedSection(cur, content)),
                              !.current_section = <<>>]
            ELSE [self EXCEPT !.current_section = <<>>]

\* handle_starttag from "Track images" on: the tag starts no section and no
\* suppression is active
StartTagContent(self, tag, attrs) ==
    LET alt == IF HasKey(attrs, "alt") THEN Get(attrs, "alt") ELSE ""
        img == tag = "img" /\ HasKey(attrs, "src")
        s1 == IF img THEN [self EXCEPT !.images_found = Append(@, Get(attrs, "src"))] ELSE self
        s2 == IF img /\ s1.current_section # <<>>
              THEN [s1 EXCEPT !.current_content =
                        Append(@, "\n![" \o alt \o "](" \o Get(attrs, "src") \o ")\n")]
              ELSE s1
        s3 == IF tag \in HeadingTags
              THEN [s2 EXCEPT !.in_heading = TRUE,
                              !.current_heading_tag = tag,
                              !.pending_heading_text = <<>>]
              ELSE s2
    IN IF s3.current_section # <<>> /\ ~s3.in_boilerplate
       THEN CASE tag = "p" -> [s3 EXCEPT !.current_content = <<>>]
              [] tag \in HeadingTags -> [s3 EXCEPT !.current_content = <<>>]
              [] tag = "hr" -> AppendBlock(s3, "\n---\n")
              [] tag = "blockquote" -> [s3 EXCEPT !.current_content = <<>>]
              [] tag \in {"em", "i"} -> [s3 EXCEPT !.current_content = Append(@, "*")]
              [] tag \in {"strong", "b"} -> [s3 EXCEPT !.current_content = Append(@, "**")]
              [] tag = "br" -> [s3 EXCEPT !.current_content = Append(@, "  \n")]
              [] tag = "li" -> [s3 EXCEPT !.current_content = <<"- ">>]
              [] OTHER -> s3
       ELSE s3

\* the open tag carries the boilerplate marker class
IsBoilerplateTag(attrs) ==
    HasKey(attrs, "class") /\ Contains(Get(attrs, "class"), "pg-boilerplate")

\* the open tag is a page-number marker
IsPagenumTag(tag, attrs) ==
    tag = "span" /\ HasKey(attrs, "class") /\ Contains(Lower(Get(attrs, "class")), "pagenum")

\* a boilerplate-class open tag that leaves the depth at zero
BoilerplateEntryDepthZero(depth) == 0

\* the depth a boilerplate-class open tag leaves
BoilerplateEntryDepth(depth) == 1

\* handle_starttag from "Check for chapter/section start" on
StartTagSection(self, tag, attrs) ==
    LET start == _is_chapter_start(tag, attrs)
        saved == IF self.current_section # <<>> THEN _save_section(self) ELSE self
    IN IF start[1] /\ start[2] # ""
       THEN IF start[3] = "toc"
            THEN [saved EXCEPT !.in_toc = TRUE, !.current_section = <<>>]
            ELSE [saved EXCEPT !.in_toc = FALSE,
                               !.current_section =
                                   << [id |-> start[2], type |-> start[3],
                                       title |-> <<>>, content |-> <<>>] >>]
       ELSE IF self.in_toc THEN self
       ELSE StartTagContent(self, tag, attrs)

\* a class attribute without a value is None in attrs_dict:
\* 'pg-boilerplate' in None raises TypeError
ClassRaises(attrs) == HasKey(attrs, "class") /\ Get(attrs, "class") = None

\* an id attribute without a value is None in attrs_dict: _is_chapter_start
\* calls div_id.lower() for the tags it looks at and raises AttributeError
IdRaises(tag, attrs) ==
    tag \in {"div", "section", "h2", "h3"} /\ HasKey(attrs, "id") /\ Get(attrs, "id") = None

handle_starttag(self0, tag, attrs) ==
    LET self == [self0 EXCEPT !.tag_stack = Append(@, tag)]
    IN IF ClassRaises(attrs)
       THEN [self EXCEPT !.raised = <<"TypeError">>]
       ELSE IF IsBoilerplateTag(attrs)
       THEN [self EXCEPT !.in_boilerplate = TRUE,
                         !.boilerplate_depth = BoilerplateEntryDepth(@),
                         !.skip_content = TRUE]
       ELSE IF self.in_boilerplate /\ tag \in {"div", "section"}
       THEN [self EXCEPT !.boilerplate_depth = @ + 1]
       ELSE IF IsPagenumTag(tag, attrs)
       THEN [self EXCEPT !.in_pagenum = TRUE]
       ELSE IF self.skip_content \/ self.in_boilerplate
       THEN self
       ELSE IF IdRaises(tag, attrs)
       THEN [self EXCEPT !.raised = <<"AttributeError">>]
       ELSE StartTagSection(self, tag, attrs)

\* the longest id made from a heading's text
SafeIdLength == 50

SlugChars == LowerAlpha \o Digits

\* s from its first character of SlugChars on
DropNonSlug(s) ==
    LET keep == {i \in 1..Len(s) : InChars(Ch(s, i), SlugChars)}
        lo == CHOOSE i \in keep : \A j \in keep : i <= j
    IN IF keep = {} THEN "" ELSE SubSeq(s, lo, Len(s))

\* re.sub(r'[^a-z0-9]+', '-', s)
RECURSIVE DashRuns(_)
DashRuns(s) ==
    IF s = "" THEN ""
    ELSE IF InChars(Ch(s, 1), SlugChars) THEN Ch(s, 1) \o DashRuns(SubSeq(s, 2, Len(s)))
    ELSE "-" \o DashRuns(DropNonSlug(s))

\* s.strip('-')
StripDashes(s) ==
    LET keep == {i \in 1..Len(s) : Ch(s, i) # "-"}
        lo == CHOOSE i \in keep : \A j \in keep : i <= j
        hi == CHOOSE i \in keep : \A j \in keep : j <= i
    IN IF keep = {} THEN "" ELSE SubSeq(s, lo, hi)

\* re.sub(r'[^a-z0-9]+', '-', heading_text.lower()).strip('-')[:50]
SafeId(heading_text) ==
    LET slug == StripDashes(DashRuns(Lower(heading_text)))
    IN SubSeq(slug, 1, IF Len(slug) <= SafeIdLength THEN Len(slug) ELSE SafeIdLength)

\* every heading rendered as a second-level heading
HeadingLevelFlat(tag) == "##"

\* the '#' prefix of a heading that starts a section
HeadingLevel(tag) ==
    CASE tag = "h1" -> "#" [] tag = "h2" -> "##" [] tag = "h3" -> "###" [] tag = "h4" -> "###"

\* handle_endtag, "Text-based chapter detection": the closing heading's text
\* classifies as a section of type section_type
\* a heading-based start that opens the new section over the open one
EndTagHeadingSectionNoFlush(self, tag, heading_text, section_type) ==
    [self EXCEPT !.in_toc = section_type = "toc",
                 !.current_section =
                     IF section_type = "toc" THEN <<>>
                     ELSE << [id |-> SafeId(heading_text), type |-> section_type,
                              title |-> <<heading_text>>,
                              content |-> <<HeadingLevel(tag) \o " " \o heading_text \o "\n\n">>] >>,
                 !.pending_heading_text = <<>>,
                 !.current_content = <<>>]

EndTagHeadingSection(self, tag, heading_text, section_type) ==
    LET saved == IF self.current_section # <<>> THEN _save_section(self) ELSE self
        safe_id == SafeId(heading_text)
        opened ==
            IF section_type = "toc"
            THEN [saved EXCEPT !.in_toc = TRUE, !.current_section = <<>>]
            ELSE [saved EXCEPT
                    !.in_toc = FALSE,
                    !.current_section =
                        << [id |-> IF safe_id # "" THEN safe_id
                                   ELSE "section-" \o ToString(Len(saved.sections) + 1),
                            type |-> section_type,
                            title |-> <<heading_text>>,
                            content |-> <<HeadingLevel(tag) \o " " \o heading_text \o "\n\n">>] >>]
    IN [opened EXCEPT !.pending_heading_text = <<>>, !.current_content = <<>>]

\* s.split('\n')
RECURSIVE SplitLines(_)
SplitLines(s) ==
    LET nl == {i \in 1..Len(s) : Ch(s, i) = "\n"}
        i == CHOOSE k \in nl : \A m \in nl : k <= m
    IN IF nl = {} THEN <<s>>
       ELSE <<SubSeq(s, 1, i - 1)>> \o SplitLines(SubSeq(s, i + 1, Len(s)))

\* '\n'.join('> ' + line.strip() for line in lines if line.strip())
RECURSIVE QuoteLines(_)
QuoteLines(lines) ==
    IF lines = <<>> THEN ""
    ELSE LET rest == QuoteLines(Tail(lines))
             line == Strip(Head(lines))
         IN IF line = "" THEN rest
            ELSE IF rest = "" THEN "> " \o line
            ELSE "> " \o line \o "\n" \o rest

\* a heading that closes as a block: the title if there is none yet, and the heading line
HeadingBlock(self, marks, content) ==
    LET s1 == IF ~Truthy(self.current_section[1].title)
              THEN [self EXCEPT !.current_section[1].title = <<content>>]
              ELSE self
    IN AppendBlock(s1, marks \o " " \o content \o "\n\n")

\* what a closing paragraph appends to the open section
ParagraphBlock(content) == content \o "\n\n"

\* handle_endtag from "if self.current_section:" on
EndTagBlock(self, tag) ==
    LET content == Strip(Join(self.current_content))
        reset(s) == [s EXCEPT !.current_content = <<>>]
    IN CASE tag = "p" ->
              reset(IF content # "" THEN AppendBlock(self, ParagraphBlock(content)) ELSE self)
         [] tag = "h1" -> reset(IF content # "" THEN HeadingBlock(self, "#", content) ELSE self)
         [] tag = "h2" -> reset(IF content # "" THEN HeadingBlock(self, "##", content) ELSE self)
         [] tag \in {"h3", "h4"} ->
              reset(IF content # "" THEN HeadingBlock(self, "###", content) ELSE self)
         [] tag = "blockquote" ->
              reset(IF content # ""
                    THEN AppendBlock(self, QuoteLines(SplitLines(content)) \o "\n\n")
                    ELSE self)
         [] tag = "li" -> reset(IF content # "" THEN AppendBlock(self, content \o "\n") ELSE self)
         [] tag \in {"ul", "ol"} -> AppendBlock(self, "\n")
         [] tag \in {"em", "i"} -> [self EXCEPT !.current_content = Append(@, "*")]
         [] tag \in {"strong", "b"} -> [self EXCEPT !.current_content = Append(@, "**")]
         [] OTHER -> self

\* the closing heading starts a section: its text classifies and nothing is skipped
HeadingStartsSection(self, hit) == hit[1] /\ ~self.in_boilerplate /\ ~self.skip_content

\* boilerplate_depth after a div or section closes inside boilerplate
DepthAfterClose(depth) == depth - 1

\* every close tag pops the stack
PopAlways(tag_stack, tag) == SubSeq(tag_stack, 1, Len(tag_stack) - 1)

\* if self.tag_stack and self.tag_stack[-1] == tag: self.tag_stack.pop()
PopIfTop(tag_stack, tag) ==
    IF tag_stack # <<>> /\ tag_stack[Len(tag_stack)] = tag
    THEN SubSeq(tag_stack, 1, Len(tag_stack) - 1)
    ELSE tag_stack

handle_endtag(self0, tag) ==
    LET self == [self0 EXCEPT !.tag_stack = PopIfTop(@, tag)]
        depth == DepthAfterClose(self.boilerplate_depth)
        heading_close == tag \in HeadingTags /\ self.in_heading
        heading_text == Strip(Join(self.pending_heading_text))
        closed == IF heading_close
                  THEN [self EXCEPT !.in_heading = FALSE, !.current_heading_tag = None]
                  ELSE self
        hit == is_chapter_heading(heading_text)
    IN IF self.in_boilerplate /\ tag \in {"div", "section"}
       THEN IF depth <= 0
            THEN [self EXCEPT !.boilerplate_depth = depth,
                              !.in_boilerplate = FALSE,
                              !.skip_content = FALSE]
            ELSE [self EXCEPT !.boilerplate_depth = depth]
       ELSE IF tag = "span" /\ self.in_pagenum
       THEN [self EXCEPT !.in_pagenum = FALSE]
       ELSE IF heading_close /\ HeadingStartsSection(closed, hit)
       THEN EndTagHeadingSection(closed, tag, heading_text, hit[2])
       ELSE IF closed.skip_content \/ closed.in_boilerplate \/ closed.in_toc \/ closed.in_pagenum
       THEN closed
       ELSE IF closed.current_section # <<>>
       THEN EndTagBlock(closed, tag)
       ELSE closed

handle_data(self, data) ==
    LET s1 == IF self.in_heading /\ data # ""
              THEN [self EXCEPT !.pending_heading_text = Append(@, data)]
              ELSE self
    IN IF s1.skip_content \/ s1.in_boilerplate \/ s1.in_toc \/ s1.in_pagenum
       THEN s1
       ELSE IF s1.current_section # <<>> /\ data # ""
       THEN [s1 EXCEPT !.current_content = Append(@, data)]
       ELSE s1

IsFrontMatter(s) == s.type = "front_matter"
\* the body list without the parts
IsBodyNoPart(s) == s.type \in {"chapter", "back_matter"}
IsBody(s) == s.type \in {"chapter", "part", "back_matter"}

\* get_results: the parser after the final save, and the triple it returns
get_results_self(self) == IF self.current_section # <<>> THEN _save_section(self) ELSE self

get_results(self) ==
    LET done == get_results_self(self)
    IN << SelectSeq(done.sections, IsFrontMatter),
          SelectSeq(done.sections, IsBody),
          done.images_found >>

-----------------------------------------------------------------------------
(* WholeBookParser *)

WholeBookParser_init == [
    content |-> <<>>,
    current_text |-> <<>>,
    in_boilerplate |-> FALSE,
    boilerplate_depth |-> 0,
    raised |-> <<>> ]   \* the exception that left a handler, if any

WholeBookParser_handle_starttag(self, tag, attrs) ==
    IF ClassRaises(attrs)
    THEN [self EXCEPT !.raised = <<"TypeError">>]
    ELSE IF IsBoilerplateTag(attrs)
    THEN [self EXCEPT !.in_boilerplate = TRUE, !.boilerplate_depth = 1]
    ELSE IF self.in_boilerplate /\ tag \in {"div", "section"}
    THEN [self EXCEPT !.boilerplate_depth = @ + 1]
    ELSE IF self.in_boilerplate
    THEN self
    ELSE CASE tag = "p" -> [self EXCEPT !.current_text = <<>>]
           [] tag \in HeadingTags -> [self EXCEPT !.current_text = <<>>]
           [] tag = "br" -> [self EXCEPT !.current_text = Append(@, "  \n")]
           [] tag \in {"em", "i"} -> [self EXCEPT !.current_text = Append(@, "*")]
           [] tag \in {"strong", "b"} -> [self EXCEPT !.current_text = Append(@, "**")]
           [] tag = "hr" -> [self EXCEPT !.content = Append(@, "\n---\n\n")]
           [] OTHER -> self

WholeBookParser_handle_endtag(self, tag) ==
    LET depth == self.boilerplate_depth - 1
        text == Strip(Join(self.current_text))
        block(marks) == [self EXCEPT !.content = Append(@, marks \o text \o "\n\n"),
                                     !.current_text = <<>>]
    IN IF self.in_boilerplate /\ tag \in {"div", "section"}
       THEN IF depth <= 0
            THEN [self EXCEPT !.boilerplate_depth = depth, !.in_boilerplate = FALSE]
            ELSE [self EXCEPT !.boilerplate_depth = depth]
       ELSE IF self.in_boilerplate
       THEN self
       ELSE CASE tag = "p" /\ text # "" -> block("")
              [] tag = "h1" /\ text # "" -> block("# ")
              [] tag = "h2" /\ text # "" -> block("## ")
              [] tag \in {"h3", "h4"} /\ text # "" -> block("### ")
              [] tag \in {"em", "i"} -> [self EXCEPT !.current_text = Append(@, "*")]
              [] tag \in {"strong", "b"} -> [self EXCEPT !.current_text = Append(@, "**")]
              [] OTHER -> self

WholeBookParser_handle_data(self, data) ==
    IF ~self.in_boilerplate /\ data # ""
    THEN [self EXCEPT !.current_text = Append(@, data)]
    ELSE self

\* get_content: ''.join(self.content).strip()
get_content(self) == Strip(Join(self.content))

-----------------------------------------------------------------------------
(* Running the trimmer: a text, its trim, and the trim of that *)

\* marker lines may stand in the first MaxHead lines and within MaxTail lines of EndScanFloor
MaxHead == 2
MaxTail == 1
\* the most marker lines in one text
MaxMarkers == 3

StartLineText == "<p>*** start of the Project Gutenberg eBook x ***</p>"
EndLineText == "*** end of the project gutenberg ebook x ***"
BothLineText == "*END*THE SMALL PRINT! end of project gutenberg's x"

MarkerTexts == {StartLineText, EndLineText, BothLineText}

PlainLine(i) == IF i % 3 = 0 THEN "" ELSE IF i % 3 = 1 THEN "<p>a</p>" ELSE "b c"

MarkerSlots == (0..(MaxHead - 1)) \cup ((EndScanFloor - MaxTail)..(EndScanFloor + MaxTail))

TrimLengths == {1, MaxHead + 1, EndScanFloor + MaxTail + 1}

\* the texts of n lines with marker lines at the places at, as f chooses them
TrimText(n, at, f) == [k \in 1..n |-> IF (k - 1) \in at THEN f[k - 1] ELSE PlainLine(k - 1)]

TrimIdle == [pc |-> "idle", text |-> <<"">>, once |-> <<"">>, twice |-> <<"">>]

\* no second parser instance
PeersIdle == [inst |-> <<>>, todo |-> <<>>, fed |-> <<>>, results |-> <<>>]

\* no call of is_chapter_heading under observation
HeadingIdle == [pc |-> "idle", words |-> <<>>, text |-> "", result |-> <<>>]

TrimInit ==
    \E n \in TrimLengths :
      \E at \in {m \in SUBSET {i \in MarkerSlots : i < n} : Cardinality(m) <= MaxMarkers} :
        \E f \in [at -> MarkerTexts] :
          trim = [pc |-> "start", text |-> TrimText(n, at, f), once |-> <<"">>, twice |-> <<"">>]

TrimFirst ==
    /\ trim.pc = "start"
    /\ trim' = [trim EXCEPT !.pc = "once", !.once = remove_gutenberg_boilerplate(trim.text)]
    /\ UNCHANGED <<parser, whole, book, obs, hcall, peers>>

TrimAgain ==
    /\ trim.pc = "once"
    /\ trim' = [trim EXCEPT !.pc = "twice", !.twice = remove_gutenberg_boilerplate(trim.once)]
    /\ UNCHANGED <<parser, whole, book, obs, hcall, peers>>

\* extract_book before "Step 4"
BookIdle == [pc |-> "idle", html_content |-> <<>>, metadata |-> <<>>, clean_html |-> <<>>,
             fallback |-> FALSE, fed |-> <<>>, front_matter |-> <<>>, chapters |-> <<>>,
             content |-> "", returned |-> <<>>]

\* no event fed yet
ObsInit == [todo |-> <<>>, open_elems |-> <<>>, malformed |-> FALSE, text_outside |-> {},
            text_inside |-> {}, img_outside |-> {}, img_inside |-> {}, dropped_empty |-> 0, dropped_toc |-> 0, results |-> <<>>,
            last |-> <<>>, before |-> <<>>, htext |-> "", closed |-> <<>>, img_open |-> {},
            owners |-> {}]

SpecTrimInit ==
    /\ TrimInit
    /\ parser = GutenbergHTMLParser_init
    /\ whole = WholeBookParser_init
    /\ book = BookIdle
    /\ obs = ObsInit
    /\ hcall = HeadingIdle
    /\ peers = PeersIdle

SpecTrimNext == TrimFirst \/ TrimAgain

SpecTrim == SpecTrimInit /\ [][SpecTrimNext]_vars

-----------------------------------------------------------------------------
(* Claims about remove_gutenberg_boilerplate, under SpecTrim *)

\* ground truth of the generated texts: which lines hold a start or an end marker
IsStartLine(line) == line \in {StartLineText, BothLineText}
IsEndLine(line) == line \in {EndLineText, BothLineText}

\* the trim range the description gives for a text
ExpectedStart(lines) ==
    LET at == {i \in 0..(Len(lines) - 1) : IsStartLine(lines[i + 1])}
    IN IF at = {} THEN 0 ELSE (CHOOSE i \in at : \A j \in at : i <= j) + 1

ExpectedEnd(lines) ==
    LET from == Max2(EndScanFloor, ExpectedStart(lines))
        at == {i \in 0..(Len(lines) - 1) : i >= from /\ IsEndLine(lines[i + 1])}
    IN IF at = {} THEN Len(lines) ELSE CHOOSE i \in at : \A j \in at : i <= j

\* C3: trimming is idempotent: trimming the trimmed text changes nothing.
C3_TrimIdempotent == trim.pc = "twice" => trim.twice = trim.once

\* C4: the trimmed text is exactly the lines [start, end) of the input: start is the
\* index after the first start-marker line (0 if none), end the index of the first
\* end-marker line at index >= max(100, start) (the line count if none); an end marker
\* below line 100 never ends the text, and a text without marker lines is unchanged.
C4_TrimRange ==
    trim.pc \in {"once", "twice"} =>
        LET lines == trim.text
            a == ExpectedStart(lines)
            b == ExpectedEnd(lines)
        IN /\ a <= b
           /\ IF a = b THEN trim.once = <<"">>
              ELSE /\ Len(trim.once) = b - a
                   /\ \A k \in 1..(b - a) : trim.once[k] = lines[a + k]
           /\ (\A i \in 1..Len(lines) : lines[i] \notin MarkerTexts) => trim.once = lines

\* a trimmed text whose start comes from a start marker, that holds an end marker
\* below line 100 which was passed over, and that ends at an end marker
C4_Witness ==
    /\ trim.pc = "once"
    /\ ExpectedStart(trim.text) > 0
    /\ ExpectedEnd(trim.text) < Len(trim.text)
    /\ \E i \in ExpectedStart(trim.text)..(EndScanFloor - 1) : IsEndLine(trim.text[i + 1])
    /\ Len(trim.once) = ExpectedEnd(trim.text) - ExpectedStart(trim.text)

-----------------------------------------------------------------------------
(* Feeding an event stream to one GutenbergHTMLParser                      *)
(* html.parser calls handle_starttag, handle_endtag and handle_data in     *)
(* document order; get_results is called once, after the last event.       *)
(* obs records what the stream was, for the claims to refer to: the open   *)
(* elements of a properly nested stream, and what occurred outside every   *)
(* element that carries the boilerplate class.                             *)

\* elements without a close tag
VoidTags == {"img", "br", "hr"}

\* the stream so far is inside an element that carries the boilerplate class
InRegion(o) == \E i \in 1..Len(o.open_elems) : o.open_elems[i].bp

IsBlank(text) == \A i \in 1..Len(text) : IsSpace(Ch(text, i))

ObsStart(o, tag, attrs) ==
    IF o.malformed THEN o
    ELSE IF tag \in VoidTags
    THEN IF tag = "img" /\ HasKey(attrs, "src")
         THEN IF ~InRegion(o) /\ ~IsBoilerplateTag(attrs)
              THEN [o EXCEPT !.img_outside = @ \cup {Get(attrs, "src")}]
              ELSE [o EXCEPT !.img_inside = @ \cup {Get(attrs, "src")}]
         ELSE o
    ELSE [o EXCEPT !.open_elems = Append(@, [tag |-> tag, bp |-> IsBoilerplateTag(attrs)]),
                   !.htext = IF tag \in HeadingTags THEN "" ELSE @]

ObsEnd(o, tag) ==
    IF o.malformed THEN [o EXCEPT !.closed = <<>>]
    ELSE IF o.open_elems # <<>> /\ o.open_elems[Len(o.open_elems)].tag = tag
    THEN [o EXCEPT !.open_elems = SubSeq(@, 1, Len(@) - 1),
                   !.closed = IF tag \in HeadingTags THEN <<o.htext>> ELSE <<>>]
    ELSE [o EXCEPT !.malformed = TRUE, !.closed = <<>>]

ObsData(o, data) ==
    LET in_heading == \E i \in 1..Len(o.open_elems) : o.open_elems[i].tag \in HeadingTags
        heard == [o EXCEPT !.htext = IF in_heading THEN @ \o data ELSE @]
    IN IF o.malformed THEN o
       ELSE IF InRegion(o) THEN [heard EXCEPT !.text_inside = @ \cup {data}]
       ELSE [heard EXCEPT !.text_outside = @ \cup {data}]

\* the event is consumed; if the handler flushed the open section, what became of it;
\* the event and the parser it came to are kept
ObsStep(o, before, after) ==
    LET flushed == after.saves > before.saves
        cur == before.current_section[1]
        e == Head(o.todo)
        img == /\ o.todo # <<>>
               /\ e.k = "start" /\ e.tag = "img" /\ HasKey(e.attrs, "src")
               /\ before.current_section # <<>>
               /\ ~(before.in_boilerplate \/ before.skip_content)
    IN [o EXCEPT !.todo = IF @ = <<>> THEN @ ELSE Tail(@),
                 !.last = IF o.todo = <<>> THEN <<>> ELSE <<Head(o.todo)>>,
                 !.before = <<before>>,
                 !.img_open = IF img THEN @ \cup {Get(e.attrs, "src")} ELSE @,
                 !.owners = IF o.todo # <<>> /\ e.k = "data" /\ before.current_section # <<>>
                            THEN @ \cup {<<e.data, before.current_section[1].id>>} ELSE @,
                 !.closed = IF o.todo # <<>> /\ Head(o.todo).k = "end" THEN @ ELSE <<>>,
                 !.dropped_toc = IF flushed /\ cur.type = "toc" THEN @ + 1 ELSE @,
                 !.dropped_empty = IF flushed /\ cur.type # "toc" /\ IsBlank(Join(cur.content))
                                   THEN @ + 1 ELSE @]

\* events, as the tokenizer hands them to the handlers
St(tag, attrs) == [k |-> "start", tag |-> tag, attrs |-> attrs, data |-> ""]
En(tag) == [k |-> "end", tag |-> tag, attrs |-> <<>>, data |-> ""]
Tx(data) == [k |-> "data", tag |-> "", attrs |-> <<>>, data |-> data]

Attrs0 == <<>>
Attr(name, value) == <<<<name, value>>>>

\* the streams made of at most n of the pieces, one after the other
RECURSIVE Streams(_, _)
Streams(pieces, n) ==
    IF n = 0 THEN {<<>>}
    ELSE LET shorter == Streams(pieces, n - 1)
         IN shorter \cup {piece \o rest : piece \in pieces, rest \in shorter}

\* feed calls the handlers one event after the other; an exception ends it
StreamPending == obs.results = <<>> /\ obs.todo # <<>> /\ parser.raised = <<>>

StartTag ==
    /\ StreamPending
    /\ Head(obs.todo).k = "start"
    /\ parser' = handle_starttag(parser, Head(obs.todo).tag, Head(obs.todo).attrs)
    /\ obs' = ObsStep(ObsStart(obs, Head(obs.todo).tag, Head(obs.todo).attrs), parser, parser')
    /\ UNCHANGED <<trim, whole, book, hcall, peers>>

EndTag ==
    /\ StreamPending
    /\ Head(obs.todo).k = "end"
    /\ parser' = handle_endtag(parser, Head(obs.todo).tag)
    /\ obs' = ObsStep(ObsEnd(obs, Head(obs.todo).tag), parser, parser')
    /\ UNCHANGED <<trim, whole, book, hcall, peers>>

Data ==
    /\ StreamPending
    /\ Head(obs.todo).k = "data"
    /\ parser' = handle_data(parser, Head(obs.todo).data)
    /\ obs' = ObsStep(ObsData(obs, Head(obs.todo).data), parser, parser')
    /\ UNCHANGED <<trim, whole, book, hcall, peers>>

EndOfStream ==
    /\ obs.results = <<>>
    /\ obs.todo = <<>>
    /\ parser.raised = <<>>
    /\ book.pc = "idle"
    /\ parser' = get_results_self(parser)
    /\ obs' = [ObsStep(obs, parser, parser') EXCEPT !.results = <<get_results(parser)>>]
    /\ UNCHANGED <<trim, whole, book, hcall, peers>>

StreamInit(streams) ==
    /\ trim = TrimIdle
    /\ hcall = HeadingIdle
    /\ peers = PeersIdle
    /\ parser = GutenbergHTMLParser_init
    /\ whole = WholeBookParser_init
    /\ book = BookIdle
    /\ \E stream \in streams : obs = [ObsInit EXCEPT !.todo = stream]

Next == StartTag \/ EndTag \/ Data \/ EndOfStream

\* Spec: streams of containers with ids, headings and paragraphs
MaxPieces == 3

SectionPieces == {
    << St("div", Attr("id", "chapter1")) >>,
    << St("div", Attr("id", "preface")) >>,
    << St("div", Attr("id", "part1")) >>,
    << St("div", Attr("id", "toc")) >>,
    << En("div") >>,
    << St("h2", Attrs0), Tx("Chapter I"), En("h2") >>,
    << St("h2", Attrs0), Tx("Epilogue"), En("h2") >>,
    << St("h3", Attrs0), Tx("Contents"), En("h3") >>,
    << St("h2", Attrs0), Tx("Some title") >>,
    << St("p", Attrs0), Tx("Text."), En("p") >>,
    << St("p", Attrs0), Tx(" "), En("p") >> }

Init == StreamInit(Streams(SectionPieces, MaxPieces))

Spec == Init /\ [][Next]_vars

\* SpecSkip: streams with elements that carry the boilerplate class
MaxSkipPieces == 4

SkipPieces == {
    << St("div", Attr("class", "pg-boilerplate")) >>,
    << St("div", Attrs0) >>,
    << En("div") >>,
    << St("div", Attr("id", "chapter1")) >>,
    << St("p", Attr("class", "pg-boilerplate")), Tx("skip"), En("p") >>,
    << St("div", Attr("class", "pg-boilerplate")), St("p", Attrs0), Tx("skip"), En("p"), En("div") >>,
    << St("p", Attrs0), Tx("Text."), En("p") >>,
    << St("h2", Attrs0), Tx("Chapter I"), En("h2") >>,
    << St("img", <<<<"src", "a.png">>, <<"alt", "A">>>>) >> }

SkipInit == StreamInit(Streams(SkipPieces, MaxSkipPieces))

SpecSkip == SkipInit /\ [][Next]_vars

-----------------------------------------------------------------------------
(* extract_book, step 4: trim, primary pass, fallback *)

\* the lines of the documents
BpDivLine == "<div class=\"pg-boilerplate\"><p>skip</p></div>"
ChapterDivLine == "<div id=\"chapter1\"><p>Hello world.</p></div>"
TwoParDivLine == "<div id=\"chapter1\"><p>One.</p><p>Two.</p></div>"
H1Line == "<h1>Epilogue</h1>"
H2Line == "<h2>Chapter I</h2>"
H3Line == "<h3>Preface</h3>"
PLine == "<p>Text.</p>"
MarkerText == "*** START OF THE PROJECT GUTENBERG EBOOK X ***"
MarkerLine == "<p>" \o MarkerText \o "</p>"
BpPLine == "<p class=\"pg-boilerplate\">skip</p>"
BlankPLine == "<p> </p>"

BookLines == {BpDivLine, ChapterDivLine, TwoParDivLine, H1Line, H2Line, H3Line,
              PLine, MarkerLine, BpPLine, BlankPLine}

Par(text) == << St("p", Attrs0), Tx(text), En("p") >>
Heading(tag, text) == << St(tag, Attrs0), Tx(text), En(tag) >>

\* HTMLParser's events for one line of the documents
Tokens(line) ==
    CASE line = BpDivLine ->
             <<St("div", Attr("class", "pg-boilerplate"))>> \o Par("skip") \o <<En("div")>>
      [] line = ChapterDivLine ->
             <<St("div", Attr("id", "chapter1"))>> \o Par("Hello world.") \o <<En("div")>>
      [] line = TwoParDivLine ->
             <<St("div", Attr("id", "chapter1"))>> \o Par("One.") \o Par("Two.") \o <<En("div")>>
      [] line = H1Line -> Heading("h1", "Epilogue")
      [] line = H2Line -> Heading("h2", "Chapter I")
      [] line = H3Line -> Heading("h3", "Preface")
      [] line = PLine -> Par("Text.")
      [] line = MarkerLine -> Par(MarkerText)
      [] line = BpPLine -> << St("p", Attr("class", "pg-boilerplate")), Tx("skip"), En("p") >>
      [] line = BlankPLine -> Par(" ")
      [] OTHER -> <<>>

\* HTMLParser.feed on the lines joined by newlines: every line of the
\* documents starts and ends with a tag, so each newline is a text event
RECURSIVE Feed(_)
Feed(lines) ==
    IF lines = <<>> THEN <<>>
    ELSE IF Len(lines) = 1 THEN Tokens(lines[1])
    ELSE Tokens(lines[1]) \o <<Tx("\n")>> \o Feed(Tail(lines))

\* whole_parser.feed(html_content)
RECURSIVE WholeBookParser_feed(_, _)
WholeBookParser_feed(self, events) ==
    IF events = <<>> THEN self
    ELSE LET e == Head(events)
         IN WholeBookParser_feed(
                CASE e.k = "start" -> WholeBookParser_handle_starttag(self, e.tag, e.attrs)
                  [] e.k = "end" -> WholeBookParser_handle_endtag(self, e.tag)
                  [] OTHER -> WholeBookParser_handle_data(self, e.data),
                Tail(events))

\* metadata.get('title', 'Full Text')
FullTextTitle(metadata) ==
    IF HasKey(metadata, "title") THEN Get(metadata, "title") ELSE "Full Text"

FullTextSection(metadata, content) ==
    [id |-> "full-text", title |-> FullTextTitle(metadata), content |-> content, type |-> "chapter"]

\* the chapters of the fallback, whatever its content
FallbackAlways(metadata, content) == << <<FullTextSection(metadata, content)>> >>

\* the chapters of the fallback, or nothing when there is no content
FallbackChapters(metadata, content) ==
    IF content # "" THEN << <<FullTextSection(metadata, content)>> >> ELSE <<>>

\* clean_html = remove_gutenberg_boilerplate(html_content); parser = GutenbergHTMLParser()
BookTrim ==
    /\ book.pc = "start"
    /\ LET clean_html == remove_gutenberg_boilerplate(book.html_content)
       IN /\ book' = [book EXCEPT !.pc = "primary", !.clean_html = clean_html]
          /\ obs' = [obs EXCEPT !.todo = Feed(clean_html)]
    /\ UNCHANGED <<trim, parser, whole, hcall, peers>>

\* front_matter, chapters, _ = parser.get_results(), and the test for the fallback
BookResults ==
    /\ book.pc = "primary"
    /\ obs.todo = <<>>
    /\ obs.results = <<>>
    /\ parser' = get_results_self(parser)
    /\ LET results == get_results(parser)
       IN /\ obs' = [ObsStep(obs, parser, parser') EXCEPT !.results = <<results>>]
          /\ book' = [book EXCEPT
                 !.pc = IF results[2] = <<>> /\ results[1] = <<>> THEN "fallback" ELSE "done",
                 !.front_matter = results[1],
                 !.chapters = results[2],
                 !.returned = IF results[2] = <<>> /\ results[1] = <<>> THEN <<>> ELSE <<TRUE>>]
    /\ UNCHANGED <<trim, whole, hcall, peers>>

\* the single-document fallback on html_content
BookFallback ==
    /\ book.pc = "fallback"
    /\ whole' = WholeBookParser_feed(WholeBookParser_init, Feed(book.html_content))
    /\ LET content == get_content(whole')
           chapters == FallbackChapters(book.metadata, content)
       IN book' = [book EXCEPT
              !.pc = IF chapters # <<>> THEN "done" ELSE "failed",
              !.fallback = TRUE,
              !.fed = book.html_content,
              !.content = content,
              !.chapters = IF chapters # <<>> THEN chapters[1] ELSE @,
              !.returned = IF chapters # <<>> THEN <<TRUE>> ELSE <<FALSE>>]
    /\ UNCHANGED <<trim, parser, obs, hcall, peers>>

MaxLines == 3

RECURSIVE Documents(_)
Documents(n) ==
    IF n = 0 THEN {<<>>}
    ELSE LET shorter == Documents(n - 1)
         IN shorter \cup {<<line>> \o rest : line \in BookLines, rest \in shorter}

BookMetadata == {<<>>, Attr("title", "Walden")}

BookInit ==
    /\ trim = TrimIdle
    /\ hcall = HeadingIdle
    /\ peers = PeersIdle
    /\ parser = GutenbergHTMLParser_init
    /\ whole = WholeBookParser_init
    /\ obs = ObsInit
    /\ \E html_content \in Documents(MaxLines) \ {<<>>} : \E metadata \in BookMetadata :
          book = [BookIdle EXCEPT !.pc = "start", !.html_content = html_content,
                                  !.metadata = metadata]

BookNext == BookTrim \/ StartTag \/ EndTag \/ Data \/ BookResults \/ BookFallback

SpecBook == BookInit /\ [][BookNext]_vars

-----------------------------------------------------------------------------
(* Claims about the transducer on event streams *)

\* C9: after end of stream the number of sections in the output list is the
\* number of flushes of an open section, minus the flushes dropped for empty
\* content, minus the flushes dropped for a toc type.
C9_FlushCount ==
    obs.results # <<>> =>
        Len(parser.sections) = parser.saves - obs.dropped_empty - obs.dropped_toc

\* a stream where one flush was dropped for empty content and another was kept
C9_Witness ==
    /\ obs.results # <<>>
    /\ parser.saves >= 2
    /\ obs.dropped_empty >= 1
    /\ Len(parser.sections) >= 1

SectionTypes == {"front_matter", "chapter", "part", "back_matter"}

\* C10: at end of stream every flushed section has one of the four output
\* types, never toc, and the two returned lists are the front-matter sections
\* and the other sections, each in document order, so that every section is
\* in exactly one list.
C10_Partition ==
    obs.results # <<>> =>
        LET front_matter == obs.results[1][1]
            chapters == obs.results[1][2]
            InFront == {i \in 1..Len(parser.sections) : parser.sections[i].type = "front_matter"}
            InBody == (1..Len(parser.sections)) \ InFront
            Pick(idx) == [k \in 1..Cardinality(idx) |->
                parser.sections[CHOOSE i \in idx : Cardinality({j \in idx : j < i}) = k - 1]]
        IN /\ \A i \in 1..Len(parser.sections) : parser.sections[i].type \in SectionTypes
           /\ front_matter = Pick(InFront)
           /\ chapters = Pick(InBody)
           /\ Len(front_matter) + Len(chapters) = Len(parser.sections)

\* a stream that ends with a section in each of the two lists
C10_Witness ==
    /\ obs.results # <<>>
    /\ obs.results[1][1] # <<>>
    /\ obs.results[1][2] # <<>>

\* texts and images that the stream has only inside boilerplate-class elements
OnlyInsideTexts == obs.text_inside \ obs.text_outside
OnlyInsideImages == obs.img_inside \ obs.img_outside

\* C5: no text and no image that occurs between a boilerplate-class open tag
\* and its matching close appears in the content of an emitted section, also
\* when boilerplate-class containers are nested.
C5_NoBoilerplateInOutput ==
    ~obs.malformed =>
        \A i \in 1..Len(parser.sections) :
            /\ \A t \in OnlyInsideTexts : ~Contains(parser.sections[i].content, t)
            /\ \A src \in OnlyInsideImages :
                   ~Contains(parser.sections[i].content, "(" \o src \o ")")

\* C6: for an open tag of any name with the boilerplate class the skip region
\* ends exactly at the matching close: the parser is skipping exactly while
\* the stream is inside such an element.
C6_SkipEndsAtMatchingClose ==
    ~obs.malformed => (parser.in_boilerplate <=> InRegion(obs))

-----------------------------------------------------------------------------
(* Claims about extract_book, under SpecBook *)

\* what the lines of the documents hold: the paragraphs with text that are
\* outside every boilerplate-class element, and the heading
OutsideParagraphs(line) ==
    CASE line = ChapterDivLine -> <<"Hello world.">>
      [] line = TwoParDivLine -> <<"One.", "Two.">>
      [] line = PLine -> <<"Text.">>
      [] line = MarkerLine -> <<MarkerText>>
      [] OTHER -> <<>>

RECURSIVE ParagraphsOutside(_)
ParagraphsOutside(lines) ==
    IF lines = <<>> THEN <<>> ELSE OutsideParagraphs(Head(lines)) \o ParagraphsOutside(Tail(lines))

HeadingLines == {H1Line, H2Line, H3Line}
HeadingOf(line) ==
    CASE line = H1Line -> [hashes |-> "#", text |-> "Epilogue", type |-> "back_matter"]
      [] line = H2Line -> [hashes |-> "##", text |-> "Chapter I", type |-> "chapter"]
      [] line = H3Line -> [hashes |-> "###", text |-> "Preface", type |-> "front_matter"]

\* the paragraphs, each followed by the blank-line separator
RECURSIVE WithSeparators(_)
WithSeparators(pars) ==
    IF pars = <<>> THEN "" ELSE Head(pars) \o "\n\n" \o WithSeparators(Tail(pars))

\* the paragraphs with the blank-line separator between them
RECURSIVE SeparatedBy(_)
SeparatedBy(pars) ==
    IF Len(pars) = 1 THEN pars[1] ELSE Head(pars) \o "\n\n" \o SeparatedBy(Tail(pars))

BookOver == book.pc \in {"done", "failed"}
BookSections == book.front_matter \o book.chapters

\* one container with a chapter identifier holding paragraphs, optionally
\* after a boilerplate-class container
ChapterContainerDocs ==
    {<<ChapterDivLine>>, <<TwoParDivLine>>, <<BpDivLine, ChapterDivLine>>, <<BpDivLine, TwoParDivLine>>}

ChapterContainerPars == ParagraphsOutside(book.html_content)

\* C1 as stated: the one chapter section 'chapter1' has as content its
\* paragraphs, each with its trailing blank-line separator kept
\* ('Hello world.\n\n').
C1_ContentKeepsSeparator ==
    (BookOver /\ book.html_content \in ChapterContainerDocs) =>
        /\ book.front_matter = <<>>
        /\ Len(book.chapters) = 1
        /\ book.chapters[1].id = "chapter1"
        /\ book.chapters[1].type = "chapter"
        /\ book.chapters[1].content = WithSeparators(ChapterContainerPars)

\* C1 amended: the one chapter section 'chapter1' has as content its
\* paragraphs with the blank-line separator between them and none after the
\* last ('Hello world.').
C1_ContentTrimmed ==
    (BookOver /\ book.html_content \in ChapterContainerDocs) =>
        /\ book.pc = "done"
        /\ ~book.fallback
        /\ book.front_matter = <<>>
        /\ Len(book.chapters) = 1
        /\ book.chapters[1].id = "chapter1"
        /\ book.chapters[1].type = "chapter"
        /\ book.chapters[1].content = SeparatedBy(ChapterContainerPars)

\* the two-paragraph chapter container after a boilerplate container, extracted
C1_Witness ==
    /\ book.pc = "done"
    /\ book.html_content = <<BpDivLine, TwoParDivLine>>
    /\ Len(book.chapters) = 1
    /\ book.chapters[1].content = "One.\n\nTwo."

\* a heading that classifies by its text, then paragraphs, one of them with text
HeadingThenParagraphs(lines) ==
    /\ Len(lines) >= 2
    /\ lines[1] \in HeadingLines
    /\ \A i \in 2..Len(lines) : lines[i] \in {PLine, BlankPLine}
    /\ \E i \in 2..Len(lines) : lines[i] = PLine

Unstructured(lines) ==
    \A i \in 1..Len(lines) : lines[i] \in {BpDivLine, PLine, MarkerLine, BpPLine, BlankPLine}

\* the texts occur in s one after the other
RECURSIVE InOrder(_, _, _)
InOrder(s, texts, from) ==
    IF texts = <<>> THEN TRUE
    ELSE LET sub == Head(texts)
             at == {i \in from..(Len(s) - Len(sub) + 1) : SubSeq(s, i, i + Len(sub) - 1) = sub}
         IN /\ at # {}
            /\ InOrder(s, Tail(texts), (CHOOSE i \in at : \A j \in at : i <= j) + Len(sub))

\* C7: for an input without qualifying identifiers and without matching
\* headings (and with a paragraph of text outside boilerplate) the primary pass
\* yields no section, the fallback runs on the original document, and the
\* result is exactly one chapter section whose content holds the text of every
\* paragraph outside boilerplate in document order; the fallback runs only
\* when the primary pass yields no section.
C7_FallbackOnUnstructured ==
    BookOver =>
        /\ book.fallback => (obs.results[1][1] = <<>> /\ obs.results[1][2] = <<>>)
        /\ (Unstructured(book.html_content) /\ ParagraphsOutside(book.html_content) # <<>>) =>
              /\ parser.sections = <<>>
              /\ book.fallback
              /\ book.fed = book.html_content
              /\ book.front_matter = <<>>
              /\ Len(book.chapters) = 1
              /\ book.chapters[1].type = "chapter"
              /\ InOrder(book.chapters[1].content, ParagraphsOutside(book.html_content), 1)

\* no line with a boilerplate-class element
NoBoilerplateClass(lines) == \A i \in 1..Len(lines) : lines[i] \notin {BpDivLine, BpPLine}

\* C8 as stated, on the documents without boilerplate-class elements: whenever
\* the fallback runs it yields a section with non-empty content, and
\* extraction never ends with 'no content'.
C8_FallbackNeverEmpty ==
    NoBoilerplateClass(book.html_content) =>
        /\ book.pc # "failed"
        /\ (BookOver /\ book.fallback) =>
              (Len(book.chapters) = 1 /\ book.chapters[1].content # "")

\* C8 amended: the fallback yields its one section exactly when its rendered
\* content is not empty, and otherwise extraction ends with 'no content';
\* every extraction that succeeds has a section, and every section it has is
\* of non-empty content.
C8_FallbackEmptyFails ==
    BookOver =>
        /\ book.fallback =>
              /\ (book.pc = "done") = (book.content # "")
              /\ book.front_matter = <<>>
              /\ book.pc = "done" =>
                    /\ Len(book.chapters) = 1
                    /\ book.chapters[1].id = "full-text"
                    /\ book.chapters[1].type = "chapter"
                    /\ book.chapters[1].content = book.content
              /\ book.pc = "failed" => (book.chapters = <<>> /\ book.returned = <<FALSE>>)
        /\ ~book.fallback => book.pc = "done"
        /\ book.pc = "done" =>
              /\ BookSections # <<>>
              /\ \A i \in 1..Len(BookSections) : ~IsBlank(BookSections[i].content)

\* the fallback ran on a document whose only paragraph is blank, and failed
C8_Witness ==
    /\ book.pc = "failed"
    /\ book.fallback
    /\ book.html_content = <<BlankPLine>>

-----------------------------------------------------------------------------
(* Claims about the identifiers of tags, under SpecIds *)

MaxIdPieces == 3

\* streams of tags with identifiers of every class: the default, the
\* chapter forms, the contents set, those with a boilerplate or license marker
IdPieces == {
    << St("div", Attr("id", "story")) >>,
    << St("section", Attr("id", "story")) >>,
    << St("h2", Attr("id", "story")), Tx("A title"), En("h2") >>,
    << St("div", Attr("id", "chapter1")) >>,
    << St("div", Attr("id", "toc")) >>,
    << St("section", Attr("id", "table-of-contents")) >>,
    << St("div", Attr("id", "contents")) >>,
    << St("h3", Attr("id", "toc")), Tx("List"), En("h3") >>,
    << St("div", Attr("id", "chapter-license")) >>,
    << St("h2", Attr("id", "boilerplate1")), Tx("Legal"), En("h2") >>,
    << St("h3", Attr("id", "x-gutenberg")), Tx("Legal"), En("h3") >>,
    << St("p", Attrs0), Tx("Text."), En("p") >>,
    << En("div") >> }

IdsInit == StreamInit(Streams(IdPieces, MaxIdPieces))

SpecIds == IdsInit /\ [][Next]_vars

\* the last event, if it is an open tag with an identifier
LastIsIdTag == obs.last # <<>> /\ obs.last[1].k = "start" /\ HasKey(obs.last[1].attrs, "id")
LastId == Get(obs.last[1].attrs, "id")
LastTag == obs.last[1].tag
Before == obs.before[1]
Suppressed(self) == self.in_boilerplate \/ self.skip_content

\* a section just opened by an identifier
OpenedById(id, type) == << [id |-> id, type |-> type, title |-> <<>>, content |-> <<>>] >>

\* the event before left the open section and the output list as they were
NoBoundary ==
    /\ parser.current_section = Before.current_section
    /\ parser.sections = Before.sections
    /\ parser.saves = Before.saves
    /\ parser.in_toc = Before.in_toc

\* the identifiers that are not rejected, have no chapter form and are in no
\* front-matter, back-matter, part or contents rule
DefaultIds == {"story"}

\* C11 as stated: a container open with an identifier that gets the default
\* classification starts, outside a skip region, a new chapter-typed section
\* with that identifier.
C11_DefaultContainerStartsChapter ==
    (LastIsIdTag /\ LastTag \in {"div", "section"} /\ LastId \in DefaultIds /\ ~Suppressed(Before))
        => parser.current_section = OpenedById(LastId, "chapter")

\* C11 amended: the default classification is chapter, and it starts a
\* chapter-typed section with that identifier for an h2 or h3 open only; a
\* container open with such an identifier starts no section and leaves the
\* open section and the output list as they are.
C11_DefaultStartsForHeadingsOnly ==
    (LastIsIdTag /\ LastId \in DefaultIds /\ ~Suppressed(Before)) =>
        /\ LastTag \in {"div", "section"} => NoBoundary
        /\ LastTag \in {"h2", "h3"} =>
              (parser.current_section = OpenedById(LastId, "chapter") /\ ~parser.in_toc)

\* a container open with a default identifier came while a section was open
C11_Witness ==
    /\ LastIsIdTag
    /\ LastTag = "div"
    /\ LastId \in DefaultIds
    /\ Before.current_section # <<>>
    /\ parser.current_section = Before.current_section

StarterTags == {"div", "section", "h2", "h3"}

\* the identifiers the description classifies as a table of contents
TocIds == {"contents", "toc", "table-of-contents"}

\* C12: an open tag whose identifier is 'contents', 'toc' or
\* 'table-of-contents' sets TOC suppression and opens no section, so that the
\* text that follows is collected into no section.
C12_ContentsIdsAreToc ==
    (LastIsIdTag /\ LastTag \in StarterTags /\ LastId \in TocIds /\ ~Suppressed(Before))
        => (parser.in_toc /\ parser.current_section = <<>>)

HasRejectedMarker(id) ==
    Contains(Lower(id), "gutenberg") \/ Contains(Lower(id), "license") \/ Contains(Lower(id), "boilerplate")

\* C13: an open tag of a kind that can start a section (div, section, h2, h3)
\* whose identifier contains 'gutenberg', 'license' or 'boilerplate' starts no
\* section and does not flush the open one, even when the identifier has a
\* chapter-numbering form.
C13_RejectedIdsNeverStart ==
    (LastIsIdTag /\ LastTag \in StarterTags /\ HasRejectedMarker(LastId) /\ ~Suppressed(Before))
        => /\ parser.current_section = Before.current_section
           /\ parser.sections = Before.sections
           /\ parser.saves = Before.saves

-----------------------------------------------------------------------------
(* is_chapter_heading on heading texts, under SpecHeading *)

MaxPhrases == 3

\* the phrases heading texts are made of: chapter words, numerals, keywords of
\* the three keyword kinds, and a word that is none of these
Phrases == { <<"chapter">>, <<"chap.">>, <<"iv">>, <<"iv.">>, <<"12.">>,
             <<"preface">>, <<"contents">>, <<"table", "of", "contents">>,
             <<"notes">>, <<"bees">> }

RECURSIVE Flatten(_)
Flatten(ps) == IF ps = <<>> THEN <<>> ELSE Head(ps) \o Flatten(Tail(ps))

\* the word sequences of up to MaxPhrases phrases
HeadingWords == {Flatten(ps) : ps \in UNION {[1..n -> Phrases] : n \in 0..MaxPhrases}}

\* the ways a heading text is written
HeadingStyles == {"plain", "upper", "tagged", "spaced"}

\* the words ws with sep between them
RECURSIVE JoinWith(_, _)
JoinWith(ws, sep) ==
    IF ws = <<>> THEN ""
    ELSE IF Len(ws) = 1 THEN ws[1]
    ELSE ws[1] \o sep \o JoinWith(Tail(ws), sep)

\* the heading text of the words ws in style st
HeadingText(ws, st) ==
    CASE st = "plain" -> JoinWith(ws, " ")
      [] st = "upper" -> Upper(JoinWith(ws, " "))
      [] st = "tagged" -> "<b>" \o JoinWith(ws, " ") \o "</b>"
      [] st = "spaced" -> "  " \o JoinWith(ws, "  ") \o " "

HeadingInit ==
    \E ws \in HeadingWords : \E st \in HeadingStyles :
        hcall = [pc |-> "text", words |-> ws, text |-> HeadingText(ws, st), result |-> <<>>]

\* the call is_chapter_heading(text)
ClassifyHeading ==
    /\ hcall.pc = "text"
    /\ hcall' = [hcall EXCEPT !.pc = "done", !.result = << is_chapter_heading(hcall.text) >>]
    /\ UNCHANGED <<trim, parser, whole, book, obs, peers>>

SpecHeadingInit ==
    /\ HeadingInit
    /\ trim = TrimIdle
    /\ parser = GutenbergHTMLParser_init
    /\ whole = WholeBookParser_init
    /\ book = BookIdle
    /\ obs = ObsInit
    /\ peers = PeersIdle

SpecHeading == SpecHeadingInit /\ [][ClassifyHeading]_vars

\* what the words of a heading say, independently of how the text is written
ChapterWords == {"chapter"}
\* the words that begin with a roman-numeral letter or a digit
NumeralLed == {"chapter", "chap.", "iv", "iv.", "12.", "contents"}
DottedNumerals == {"iv.", "12."}
FrontKeywords == { <<"preface">> }
TocKeywords == { <<"contents">>, <<"table", "of", "contents">> }
BackKeywords == { <<"notes">> }

IsExactly(kw, ws) == ws = kw
BeginsWith(kw, ws) == Len(ws) > Len(kw) /\ SubSeq(ws, 1, Len(kw)) = kw
EndsIn(kw, ws) == Len(ws) > Len(kw) /\ SubSeq(ws, Len(ws) - Len(kw) + 1, Len(ws)) = kw

ChapterForm(ws) ==
    \/ Len(ws) >= 2 /\ ws[1] \in ChapterWords \cup {"chap."} /\ ws[2] \in NumeralLed
    \/ Len(ws) = 1 /\ ws[1] \in DottedNumerals
FrontForm(ws) == \E kw \in FrontKeywords : IsExactly(kw, ws) \/ BeginsWith(kw, ws) \/ EndsIn(kw, ws)
TocForm(ws) == \E kw \in TocKeywords : IsExactly(kw, ws) \/ BeginsWith(kw, ws) \/ EndsIn(kw, ws)
BackForm(ws) == \E kw \in BackKeywords : IsExactly(kw, ws) \/ BeginsWith(kw, ws)

\* C14: the classification of a heading text is decided by the first rule
\* that matches: a chapter pattern gives chapter; else a front-matter keyword
\* (exact, followed by a space, or preceded by a space) gives front_matter, or
\* toc for the contents keywords; else a back-matter keyword (exact or
\* followed by a space) gives back_matter; else the text is no section. A
\* text with a front-matter and a back-matter keyword gets the front-matter
\* result. (Texts with both a contents keyword and another front-matter
\* keyword are left aside: the rule does not say which of the two wins.)
C14_TextClassification ==
    (hcall.pc = "done" /\ ~(FrontForm(hcall.words) /\ TocForm(hcall.words))) =>
        hcall.result[1] =
            IF ChapterForm(hcall.words) THEN <<TRUE, "chapter">>
            ELSE IF FrontForm(hcall.words) THEN <<TRUE, "front_matter">>
            ELSE IF TocForm(hcall.words) THEN <<TRUE, "toc">>
            ELSE IF BackForm(hcall.words) THEN <<TRUE, "back_matter">>
            ELSE <<FALSE, "">>

\* a text that begins with a back-matter keyword and ends with a front-matter
\* keyword was classified front_matter
C14_Witness ==
    /\ hcall.pc = "done"
    /\ hcall.words = <<"notes", "preface">>
    /\ hcall.result[1] = <<TRUE, "front_matter">>

-----------------------------------------------------------------------------
(* Claims about malformed and unusual events, under SpecAttrs *)

MaxAttrPieces == 3

\* streams with attributes that have no value, an unrecognized tag and a
\* close tag that matches no open tag
AttrPieces == {
    << St("div", Attr("class", None)) >>,
    << St("div", Attr("id", None)) >>,
    << St("span", Attr("class", None)), Tx("12"), En("span") >>,
    << St("h2", Attr("id", None)), Tx("A title"), En("h2") >>,
    << St("blink", Attrs0), Tx("Text.") >>,
    << En("div") >>,
    << St("div", Attr("class", "pg-boilerplate")) >>,
    << St("div", Attr("id", "chapter1")) >>,
    << St("p", Attrs0), Tx("Text."), En("p") >> }

AttrsInit == StreamInit(Streams(AttrPieces, MaxAttrPieces))

SpecAttrs == AttrsInit /\ [][Next]_vars

\* C15: no event sequence makes a handler of the transducer raise, whether
\* it has malformed nesting, unrecognized tags, or tags whose class or id
\* attribute is present without a value.
C15_NeverRaises == parser.raised = <<>>

-----------------------------------------------------------------------------
(* Two parser instances fed in turns, under SpecPeers *)

MaxPeerPieces == 2

PeerPieces == {
    << St("div", Attr("id", "chapter1")) >>,
    << St("p", Attrs0), Tx("Text."), En("p") >>,
    << St("h2", Attrs0), Tx("Preface"), En("h2") >>,
    << St("img", Attr("src", "a.png")) >> }

PeerIds == {1, 2}

\* every instance is the receiver of the calls made on it
TheFirst(i) == 1

\* parser = GutenbergHTMLParser(): the object the i-th construction returns,
\* on which the calls for the i-th document are made
Receiver(i) == i

\* the handler that feed calls for the event e
HandleEvent(self, e) ==
    CASE e.k = "start" -> handle_starttag(self, e.tag, e.attrs)
      [] e.k = "end" -> handle_endtag(self, e.tag)
      [] OTHER -> handle_data(self, e.data)

\* parser.feed on a whole event sequence
RECURSIVE FeedAll(_, _)
FeedAll(self, events) ==
    IF events = <<>> \/ self.raised # <<>> THEN self
    ELSE FeedAll(HandleEvent(self, Head(events)), Tail(events))

PeersInit ==
    /\ trim = TrimIdle
    /\ hcall = HeadingIdle
    /\ parser = GutenbergHTMLParser_init
    /\ whole = WholeBookParser_init
    /\ book = BookIdle
    /\ obs = ObsInit
    /\ \E a \in Streams(PeerPieces, MaxPeerPieces), b \in Streams(PeerPieces, MaxPeerPieces) :
           peers = [inst |-> <<GutenbergHTMLParser_init, GutenbergHTMLParser_init>>,
                    todo |-> <<a, b>>, fed |-> <<a, b>>, results |-> << <<>>, <<>> >>]

\* the next event of document i goes to its parser
PeerEvent(i) ==
    /\ peers.inst # <<>>
    /\ peers.todo[i] # <<>>
    /\ peers.inst[Receiver(i)].raised = <<>>
    /\ peers' = [peers EXCEPT !.inst[Receiver(i)] = HandleEvent(@, Head(peers.todo[i])),
                              !.todo[i] = Tail(@)]
    /\ UNCHANGED <<trim, parser, whole, book, obs, hcall>>

\* get_results on the parser of document i
PeerResults(i) ==
    /\ peers.inst # <<>>
    /\ peers.todo[i] = <<>>
    /\ peers.results[i] = <<>>
    /\ peers' = [peers EXCEPT !.results[i] = << get_results(peers.inst[Receiver(i)]) >>,
                              !.inst[Receiver(i)] = get_results_self(@)]
    /\ UNCHANGED <<trim, parser, whole, book, obs, hcall>>

PeersNext == \E i \in PeerIds : PeerEvent(i) \/ PeerResults(i)

SpecPeers == PeersInit /\ [][PeersNext]_vars

\* what a parser that is fed the events alone returns
Alone(events) == get_results(FeedAll(GutenbergHTMLParser_init, events))

-----------------------------------------------------------------------------
(* Claims about headings, page-number markers and images in a stream *)

\* the close tag of a heading has just come, outside every skip region
HeadingJustClosed == obs.closed # <<>> /\ ~Suppressed(Before) /\ ~InRegion(obs)
ClosedText == Strip(obs.closed[1])
ClosedType == is_chapter_heading(ClosedText)

\* C17: outside a skip region, also while TOC suppression is active, the
\* close of a heading whose text classifies as a section other than toc
\* flushes the open section, clears TOC suppression and leaves a new section
\* open with the heading text as its title: a bare 'Chapter I' heading after
\* a bare 'Contents' heading still starts the 'Chapter I' section.
C17_HeadingCloseStartsSection ==
    (HeadingJustClosed /\ ClosedType[1] /\ ClosedType[2] # "toc") =>
        /\ ~parser.in_toc
        /\ parser.current_section # <<>>
        /\ parser.current_section[1].type = ClosedType[2]
        /\ parser.current_section[1].title = <<ClosedText>>
        /\ Before.current_section # <<>> => parser.saves = Before.saves + 1

MaxMarkPieces == 3

\* streams with page-number markers: alone, around another span, inside a
\* heading; the text of a marker, and no other text, holds the character '@'
MarkPieces == {
    << St("div", Attr("id", "chapter1")) >>,
    << St("p", Attrs0), Tx("Text.") >>,
    << En("p") >>,
    << St("span", Attr("class", "pagenum")), Tx("@12"), En("span") >>,
    << St("span", Attr("class", "pagenum")), St("span", Attrs0), Tx("@1"), En("span"),
       Tx("@3"), En("span") >>,
    << St("h2", Attrs0), Tx("Chapter I"), St("span", Attr("class", "pagenum")), Tx("@12"),
       En("span"), En("h2") >> }

MarksInit == StreamInit(Streams(MarkPieces, MaxMarkPieces))

SpecMarks == MarksInit /\ [][Next]_vars

MarkerChar == "@"

\* the sections get_results has returned
Returned == IF obs.results = <<>> THEN <<>> ELSE obs.results[1][1] \o obs.results[1][2]

\* the last event is the open tag of a page-number marker or text inside one
LastIsMarkerEvent ==
    /\ obs.last # <<>>
    /\ \/ obs.last[1].k = "start" /\ IsPagenumTag(obs.last[1].tag, obs.last[1].attrs)
       \/ obs.last[1].k = "data" /\ Contains(obs.last[1].data, MarkerChar)

\* C18: the text between the open tag of a page-number marker and its
\* matching close appears in no section's content or title, also when the
\* marker holds other spans or lies inside a heading; and the marker changes
\* no section boundary.
C18_MarkerTextNeverEmitted ==
    /\ \A i \in 1..Len(Returned) :
          ~Contains(Returned[i].content, MarkerChar) /\ ~Contains(Returned[i].title, MarkerChar)
    /\ LastIsMarkerEvent =>
          /\ parser.sections = Before.sections
          /\ parser.saves = Before.saves
          /\ (parser.current_section = <<>>) = (Before.current_section = <<>>)

MaxImagePieces == 3

\* streams with images before, inside and after sections, a table of
\* contents and a boilerplate element
ImagePieces == {
    << St("div", Attr("id", "chapter1")) >>,
    << St("div", Attr("id", "toc")) >>,
    << St("img", <<<<"src", "a.png">>, <<"alt", "A">>>>) >>,
    << St("img", Attr("src", "b.png")) >>,
    << St("img", Attr("alt", "C")) >>,
    << St("p", Attrs0), Tx("Text.") >>,
    << En("p") >>,
    << St("li", Attrs0), Tx("Item"), En("li") >>,
    << St("h2", Attrs0), Tx("Chapter I"), En("h2") >>,
    << St("div", Attr("class", "pg-boilerplate")), St("img", Attr("src", "c.png")), En("div") >> }

ImagesInit == StreamInit(Streams(ImagePieces, MaxImagePieces))

SpecImages == ImagesInit /\ [][Next]_vars

LastIsImage ==
    obs.last # <<>> /\ obs.last[1].k = "start" /\ obs.last[1].tag = "img"
        /\ HasKey(obs.last[1].attrs, "src")

\* C19: every image open tag with a src outside a skip region is appended to
\* the image list, whether or not a section is open and whether or not TOC
\* suppression is active, so the list is in document order.
C19_EveryImageRecorded ==
    (LastIsImage /\ ~Suppressed(Before) /\ ~InRegion(obs)) =>
        parser.images_found = Append(Before.images_found, Get(obs.last[1].attrs, "src"))

\* the image-reference line of an image, as it stands in a trimmed content
ImageReference(src) == "](" \o src \o ")"

\* C20: when an image comes while a section is open, its image-reference
\* line is part of that section's content from then on: neither a following
\* block-level open tag (p, heading, blockquote, li) nor a flush before any
\* block close removes it, so it is in the content of a returned section.
C20_ImageLineStays ==
    obs.results # <<>> =>
        \A src \in obs.img_open :
            \E i \in 1..Len(Returned) : Contains(Returned[i].content, ImageReference(src))

-----------------------------------------------------------------------------
(* Claims about close tags, under SpecClose *)

MaxClosePieces == 3

\* streams in which close tags come with and without their open tag on top
\* of tag_stack: a line break inside a paragraph, closes without any open tag
ClosePieces == {
    << St("div", Attr("id", "chapter1")) >>,
    << St("p", Attrs0), Tx("Text.") >>,
    << St("br", Attrs0), Tx("More.") >>,
    << En("p") >>,
    << En("div") >>,
    << St("div", Attr("class", "pg-boilerplate")) >>,
    << St("h2", Attrs0), Tx("Chapter I") >>,
    << En("h2") >>,
    << St("span", Attr("class", "pagenum")), St("b", Attrs0) >>,
    << En("span") >> }

CloseInit == StreamInit(Streams(ClosePieces, MaxClosePieces))

SpecClose == CloseInit /\ [][Next]_vars

\* the last event is a close tag whose name is not on top of tag_stack
LastIsMismatchedClose ==
    /\ obs.last # <<>>
    /\ obs.last[1].k = "end"
    /\ \/ Before.tag_stack = <<>>
       \/ Before.tag_stack[Len(Before.tag_stack)] # obs.last[1].tag

\* C21: a close tag whose name does not match the top of tag_stack is a
\* no-op: it pops nothing, raises nothing and leaves every other part of the
\* parser state (section content, inline buffer, suppression flags, skip
\* depth, output list) unchanged.
C21_MismatchedCloseIsNoOp == LastIsMismatchedClose => parser = Before

\* C21 amended: a close tag whose name does not match the top of tag_stack
\* pops nothing and raises nothing; on every other part of the parser state
\* it acts as the same close tag does when its name is on top of tag_stack.
C21_MismatchedClosePopsNothing ==
    LastIsMismatchedClose =>
        /\ parser.tag_stack = Before.tag_stack
        /\ parser.raised = <<>>
        /\ parser = [handle_endtag([Before EXCEPT !.tag_stack = <<obs.last[1].tag>>], obs.last[1].tag)
                        EXCEPT !.tag_stack = Before.tag_stack]

\* the close of a paragraph came with a line break on top of tag_stack, and
\* the paragraph was appended to the open section
C21_Witness ==
    /\ LastIsMismatchedClose
    /\ obs.last[1].tag = "p"
    /\ Before.tag_stack # <<>>
    /\ Before.tag_stack[Len(Before.tag_stack)] = "br"
    /\ parser.current_section # <<>>
    /\ Before.current_section # <<>>
    /\ Len(parser.current_section[1].content) = Len(Before.current_section[1].content) + 1

-----------------------------------------------------------------------------
(* The two parsers on the same fragment, under SpecRender *)

MaxRenderPieces == 3

\* fragments of paragraphs, headings, list items, blockquotes, line breaks
\* and emphasis, none of them boilerplate and no heading a section start
RenderPieces == {
    << St("p", Attrs0), Tx("Text."), En("p") >>,
    << St("h2", Attrs0), Tx("A title"), En("h2") >>,
    << St("h4", Attrs0), Tx("Minor"), En("h4") >>,
    << St("li", Attrs0), Tx("Item"), En("li") >>,
    << St("blockquote", Attrs0), Tx("Quote"), En("blockquote") >>,
    << St("p", Attrs0), Tx("One"), St("br", Attrs0), Tx("two"), En("p") >>,
    << St("p", Attrs0), St("em", Attrs0), Tx("It"), En("em"), Tx(" is"), En("p") >> }

\* the handler of WholeBookParser that feed calls for the event e
WholeBookParser_HandleEvent(self, e) ==
    CASE e.k = "start" -> WholeBookParser_handle_starttag(self, e.tag, e.attrs)
      [] e.k = "end" -> WholeBookParser_handle_endtag(self, e.tag)
      [] OTHER -> WholeBookParser_handle_data(self, e.data)

\* the transducer has one section open, the fallback parser is new
RenderInit ==
    /\ trim = TrimIdle
    /\ hcall = HeadingIdle
    /\ peers = PeersIdle
    /\ parser = handle_starttag(GutenbergHTMLParser_init, "div", Attr("id", "chapter1"))
    /\ whole = WholeBookParser_init
    /\ book = BookIdle
    /\ \E stream \in Streams(RenderPieces, MaxRenderPieces) : obs = [ObsInit EXCEPT !.todo = stream]

\* the next event of the fragment goes to both parsers
RenderEvent ==
    /\ StreamPending
    /\ whole.raised = <<>>
    /\ parser' = HandleEvent(parser, Head(obs.todo))
    /\ whole' = WholeBookParser_HandleEvent(whole, Head(obs.todo))
    /\ obs' = [obs EXCEPT !.todo = Tail(@), !.last = <<Head(obs.todo)>>, !.before = <<parser>>]
    /\ UNCHANGED <<trim, book, hcall, peers>>

\* get_results on the transducer; get_content reads the fallback parser
RenderEnd ==
    /\ obs.results = <<>>
    /\ obs.todo = <<>>
    /\ parser.raised = <<>>
    /\ parser' = get_results_self(parser)
    /\ obs' = [obs EXCEPT !.results = <<get_results(parser)>>]
    /\ UNCHANGED <<trim, whole, book, hcall, peers>>

RenderNext == RenderEvent \/ RenderEnd

SpecRender == RenderInit /\ [][RenderNext]_vars

\* the content the transducer has rendered for the fragment
RenderedContent == IF Returned = <<>> THEN "" ELSE Returned[1].content

\* C22: for a fragment of paragraphs, headings, list items, blockquotes,
\* line breaks and emphasis outside boilerplate, the text the fallback
\* renders equals the content the transducer renders for the same fragment
\* inside one open section.
C22_SameRendering ==
    obs.results # <<>> => (Len(Returned) <= 1 /\ get_content(whole) = RenderedContent)

-----------------------------------------------------------------------------
(* Heading lines, under SpecLevels *)

MaxLevelPieces == 3

\* headings of every level, some that start a section by their text and
\* some that do not
LevelPieces == {
    << St("div", Attr("id", "chapter1")) >>,
    << St("h1", Attrs0), Tx("A title"), En("h1") >>,
    << St("h2", Attrs0), Tx("A title"), En("h2") >>,
    << St("h3", Attrs0), Tx("A title"), En("h3") >>,
    << St("h4", Attrs0), Tx("A title"), En("h4") >>,
    << St("h1", Attrs0), Tx("Epilogue"), En("h1") >>,
    << St("h4", Attrs0), Tx("Chapter I"), En("h4") >>,
    << St("p", Attrs0), Tx("Text."), En("p") >> }

LevelsInit == StreamInit(Streams(LevelPieces, MaxLevelPieces))

SpecLevels == LevelsInit /\ [][Next]_vars

\* the level of a heading tag
LevelOf(tag) == CASE tag = "h1" -> 1 [] tag = "h2" -> 2 [] tag = "h3" -> 3 [] tag = "h4" -> 4

RECURSIVE Hashes(_)
Hashes(n) == IF n = 0 THEN "" ELSE "#" \o Hashes(n - 1)

\* the heading line of the heading that has just closed
ClosedHeadingLine == Hashes(LevelOf(obs.last[1].tag)) \o " " \o ClosedText \o "\n\n"

LastBlock(section) == section[1].content[Len(section[1].content)]

\* C23: the rendered line of a heading is '#' repeated as many times as the
\* level of the heading (h1: 1, h2: 2, h3: 3, h4: 4), a space and the heading
\* text, both when the heading starts a section by its text and when it
\* closes as a block inside an open section.
C23_HeadingLineLevel ==
    (HeadingJustClosed /\ ~Before.in_toc /\ ClosedText # ""
        /\ (ClosedType[1] \/ Before.current_section # <<>>) /\ ClosedType[2] # "toc") =>
        /\ parser.current_section # <<>>
        /\ parser.current_section[1].content # <<>>
        /\ LastBlock(parser.current_section) = ClosedHeadingLine

-----------------------------------------------------------------------------
(* Claims about the open section and the output list *)

IsPrefixOf(a, b) == Len(a) <= Len(b) /\ SubSeq(b, 1, Len(a)) = a

\* what the flush of the open section `cur` adds to the output list
FlushedFrom(cur) ==
    IF cur.type = "toc" \/ IsBlank(Join(cur.content)) THEN <<>>
    ELSE << [id |-> cur.id,
             title |-> IF cur.title # <<>> /\ cur.title[1] # "" THEN cur.title[1] ELSE cur.id,
             content |-> Strip(Join(cur.content)),
             type |-> cur.type] >>

\* a heading whose text is a section start has just closed while a section
\* was open
HeadingClosedOverSection ==
    HeadingJustClosed /\ ClosedType[1] /\ Before.current_section # <<>>

\* C24: section starts never nest. At most one section is open; the sections
\* of the output list never change once they are in it; and when a heading
\* that satisfies textual detection closes while a section opened by an
\* identifier is active, that section is flushed first (appended to the
\* output if its content is not empty, dropped otherwise) and only then the
\* new section opens, holding nothing but its own heading line.
C24_NoNesting ==
    /\ Len(parser.current_section) <= 1
    /\ obs.before # <<>> => IsPrefixOf(Before.sections, parser.sections)
    /\ HeadingClosedOverSection =>
          /\ parser.saves = Before.saves + 1
          /\ parser.sections = Before.sections \o FlushedFrom(Before.current_section[1])
          /\ IF ClosedType[2] = "toc" THEN parser.current_section = <<>>
             ELSE /\ parser.current_section # <<>>
                  /\ parser.current_section[1].title = <<ClosedText>>
                  /\ Len(parser.current_section[1].content) = 1

\* the heading 'Chapter I' closed while the section of <div id="chapter1">
\* was open with content, which went to the output list
C24_Witness ==
    /\ HeadingClosedOverSection
    /\ Before.current_section[1].id = "chapter1"
    /\ Len(parser.sections) = Len(Before.sections) + 1
    /\ parser.current_section # <<>>
    /\ parser.current_section[1].id = "chapter-i"

\* C25: no section of the output list has empty or whitespace-only content,
\* and every section of the output list has a non-empty title: the title
\* set while the section was open, or its non-empty identifier when none
\* was set.
C25_OutputSectionsFilled ==
    /\ \A i \in 1..Len(parser.sections) :
          /\ ~IsBlank(parser.sections[i].content)
          /\ parser.sections[i].title # ""
          /\ parser.sections[i].id # ""
    /\ (obs.before # <<>> /\ Len(parser.sections) > Len(Before.sections)) =>
          /\ Before.current_section # <<>>
          /\ parser.sections = Before.sections \o FlushedFrom(Before.current_section[1])

\* an empty section was dropped, and the output list holds a section whose
\* title is its identifier
C25_Witness ==
    /\ obs.dropped_empty > 0
    /\ \E i \in 1..Len(parser.sections) : parser.sections[i].title = parser.sections[i].id

-----------------------------------------------------------------------------
(* The skip depth of both parsers, under SpecDepth *)

MaxDepthPieces == 4

\* streams with boilerplate elements, nested containers and closes without
\* an open tag
DepthPieces == {
    << St("div", Attr("class", "pg-boilerplate")) >>,
    << St("p", Attr("class", "pg-boilerplate")), Tx("skip"), En("p") >>,
    << St("div", Attrs0) >>,
    << St("section", Attr("id", "chapter1")) >>,
    << En("div") >>,
    << En("section") >>,
    << St("p", Attrs0), Tx("Text."), En("p") >> }

\* both parsers are new
DepthInit ==
    /\ trim = TrimIdle
    /\ hcall = HeadingIdle
    /\ peers = PeersIdle
    /\ parser = GutenbergHTMLParser_init
    /\ whole = WholeBookParser_init
    /\ book = BookIdle
    /\ \E stream \in Streams(DepthPieces, MaxDepthPieces) : obs = [ObsInit EXCEPT !.todo = stream]

SpecDepth == DepthInit /\ [][RenderNext]_vars

\* C26: in every reachable state of both parsers the skip depth is a
\* non-negative integer and boilerplate suppression is active exactly when
\* the skip depth is greater than zero; in the transducer the skip_content
\* flag equals the in_boilerplate flag.
C26_SkipDepth ==
    /\ parser.boilerplate_depth \in Nat
    /\ whole.boilerplate_depth \in Nat
    /\ parser.in_boilerplate <=> parser.boilerplate_depth > 0
    /\ whole.in_boilerplate <=> whole.boilerplate_depth > 0
    /\ parser.skip_content = parser.in_boilerplate

\* both parsers are two containers deep in a skip region, with events
\* still to come
C26_Witness ==
    /\ parser.boilerplate_depth = 2
    /\ whole.boilerplate_depth = 2
    /\ parser.skip_content
    /\ obs.last # <<>>
    /\ Len(parser.tag_stack) = 2
    /\ Len(obs.todo) > 0

-----------------------------------------------------------------------------
(* Text before and after a section start, under SpecCarry *)

MaxCarryPieces == 4

\* streams in which a section starts while text is in the inline buffer: a
\* paragraph that is open when the next container or heading comes
CarryPieces == {
    << St("div", Attr("id", "chapter1")) >>,
    << St("div", Attr("id", "chapter2")) >>,
    << St("p", Attrs0), Tx("One.") >>,
    << Tx("Two.") >>,
    << En("p") >>,
    << St("h2", Attrs0), Tx("Chapter I"), En("h2") >> }

CarryInit == StreamInit(Streams(CarryPieces, MaxCarryPieces))

SpecCarry == CarryInit /\ [][Next]_vars

\* the texts of the streams that are not heading texts
BodyTexts == {"One.", "Two."}

\* C27: every text fragment in the content of an emitted section comes from
\* a text event that occurred while that section was the open section: what
\* the inline buffer held before a structural or heading-based section start
\* is not carried over into the section opened by that start.
C27_NoCarryOver ==
    \A i \in 1..Len(Returned) : \A t \in BodyTexts :
        Contains(Returned[i].content, t) => <<t, Returned[i].id>> \in obs.owners

====
